---- MODULE Spec2Model ----
(* Fractal narrative memory (src/fractal_memory_advanced.py): the narrative   *)
(* graph (SQLite tables nodes, edges, segment_nodes), the multi-scale         *)
(* segmenter, the per-scale FAISS index with its metadata list, and the       *)
(* fused retrieval.                                                           *)
(*                                                                            *)
(* External collaborators are inputs of the actions: the NER model's output   *)
(* for a text is the sequence of entities it is given with, the regex hits    *)
(* are the motif set / marker offsets it is given with, the embedding of a    *)
(* text is an abstract vector.                                                *)
EXTENDS Integers, Sequences, FiniteSets, TLC

VARIABLES
    nodes,          \* table nodes: a set of rows
    edges,          \* table edges: a set of rows
    segment_nodes,  \* table segment_nodes: a set of rows
    tally,          \* history: what update_graph has been given so far
    disk_index,     \* the index file of each scale: NULL (no file) or Val(vectors)
    disk_meta,      \* the metadata file of each scale: NULL or Val(records)
    indices,        \* FractalRetriever.indices: scale -> the vectors of its index
    metadata,       \* FractalRetriever.metadata: scale -> list of segment dicts
    pending,        \* where a running index_segments call stands
    ret             \* the value returned by the last read-only call

graphVars == <<nodes, edges, segment_nodes, tally>>
indexVars == <<disk_index, disk_meta, indices, metadata, pending>>
vars == <<nodes, edges, segment_nodes, tally, disk_index, disk_meta, indices,
          metadata, pending, ret>>

(* ------------------------------ bounds ------------------------------ *)

\* update_graph calls in one behaviour
MaxUpdates == 2
\* entities the NER model reports for one segment text
MaxMentions == 2
\* names in one query_graph call
MaxQueryNames == 2
\* characters in a chapter text
MaxTextLen == 5
\* micro segments of a chapter
MaxMicro == 3
\* vectors in the index files of all scales together
MaxVectors == 3
\* segments in one index_segments call
MaxBatch == 2
\* the k of a fractal_retrieve call
MaxK == 2
\* quote marks and action-verb hits in a text given to classify_scene_type
MaxQuotes == 26
MaxActionHits == 6
\* the segmenter's meso_window[1] and overlap, in words (constructor
\* parameters; the defaults are 800 and 50)
WindowSize == 2
Overlap == 1

(* ------------------------- program constants ------------------------ *)

\* classify_scene_type: dialogue_ratio > 0.05, action_words > 5, len < 500
DialoguePercent == 5
ActionWordsOver == 5
TransitionBelow == 500
\* compute_graph_boost: min(centrality / 100.0, 0.5), in hundredths
BoostCap == 50

(* ------------------------------ helpers ----------------------------- *)

BoundedSeq(S, n) == UNION {[1..k -> S] : k \in 0..n}

Get(f, k) == IF k \in DOMAIN f THEN f[k] ELSE 0

SeqToSet(s) == {s[i] : i \in 1..Len(s)}

Count(x, s) == Cardinality({i \in 1..Len(s) : s[i] = x})

\* SQL NULL, and a non-NULL column value v
NULL == <<>>
Val(v) == <<v>>

(* ------------------------- narrative graph -------------------------- *)

\* load_character_aliases
CharacterAliases ==
    [k \in {"tom", "tommy", "robert", "bob", "miranda"} |->
        CASE k = "tom" -> "Thomas"
          [] k = "tommy" -> "Thomas"
          [] k = "robert" -> "Robert"
          [] k = "bob" -> "Robert"
          [] k = "miranda" -> "Miranda"]

\* str.lower() on the names the model uses
Lower(s) ==
    CASE s = "Tom" -> "tom"
      [] s = "Thomas" -> "thomas"
      [] s = "Paris" -> "paris"
      [] s = "Robert" -> "robert"
      [] s = "Miranda" -> "miranda"
      [] OTHER -> s

\* canonicalize(name, node_type)
Canonicalize(name, node_type) ==
    IF node_type = "character"
    THEN IF Lower(name) \in DOMAIN CharacterAliases
         THEN CharacterAliases[Lower(name)]
         ELSE name
    ELSE name

\* f"{node_type}_{canonical.lower().replace(' ', '_')}" (no name of the model
\* holds a space)
NodeIdOf(node_type, canonical) == node_type \o "_" \o Lower(canonical)

\* a GraphNode whose attributes also carry a status, for comparison
EntityNodeWithStatus(ent) ==
    LET node_type == IF ent.label = "PERSON" THEN "character" ELSE "setting"
        canonical == Canonicalize(ent.text, node_type)
    IN  [node_id |-> NodeIdOf(node_type, canonical),
         node_type |-> node_type,
         canonical_name |-> canonical,
         attributes |-> [original_text |-> ent.text, label |-> ent.label,
                         status |-> "alive"]]

\* the GraphNode extract_entities builds for one NER entity
EntityNode(ent) ==
    LET node_type == IF ent.label = "PERSON" THEN "character" ELSE "setting"
        canonical == Canonicalize(ent.text, node_type)
    IN  [node_id |-> NodeIdOf(node_type, canonical),
         node_type |-> node_type,
         canonical_name |-> canonical,
         attributes |-> [original_text |-> ent.text, label |-> ent.label]]

\* the GraphNode extract_entities builds for one matching motif pattern
MotifNode(motif_name) ==
    [node_id |-> "motif_" \o motif_name,
     node_type |-> "motif",
     canonical_name |-> motif_name,
     attributes |-> [pattern |-> motif_name]]

\* motif_patterns, in dict order
MotifNames == <<"frost", "purple", "water", "darkness">>

RECURSIVE NerNodes(_)
NerNodes(ents) ==
    IF ents = <<>> THEN <<>>
    ELSE IF Head(ents).label \in {"PERSON", "LOC", "ORG"}
         THEN <<EntityNode(Head(ents))>> \o NerNodes(Tail(ents))
         ELSE NerNodes(Tail(ents))

RECURSIVE MotifNodes(_, _)
MotifNodes(names, matched) ==
    IF names = <<>> THEN <<>>
    ELSE IF Head(names) \in matched
         THEN <<MotifNode(Head(names))>> \o MotifNodes(Tail(names), matched)
         ELSE MotifNodes(Tail(names), matched)

\* extract_entities(text): a text is [ents: what nlp(text).ents holds, in
\* document order; motifs: the motif names whose pattern re.search finds]
ExtractEntities(text) ==
    NerNodes(text.ents) \o MotifNodes(MotifNames, text.motifs)

\* what INSERT OR IGNORE INTO nodes would do instead: an existing row is left
\* alone
UpsertNodeIgnore(rows, entity) ==
    IF \E r \in rows : r.node_id = entity.node_id
    THEN rows
    ELSE rows \cup {[node_id |-> entity.node_id,
                     node_type |-> entity.node_type,
                     canonical_name |-> entity.canonical_name,
                     attributes |-> Val(entity.attributes),
                     frequency |-> 1,
                     centrality |-> NULL]}

\* INSERT INTO nodes ... VALUES (?, ?, ?, ?, 1)
\* ON CONFLICT(node_id) DO UPDATE SET frequency = frequency + 1
UpsertNode(rows, entity) ==
    IF \E r \in rows : r.node_id = entity.node_id
    THEN {IF r.node_id = entity.node_id
          THEN [r EXCEPT !.frequency = @ + 1]
          ELSE r : r \in rows}
    ELSE rows \cup {[node_id |-> entity.node_id,
                     node_type |-> entity.node_type,
                     canonical_name |-> entity.canonical_name,
                     attributes |-> Val(entity.attributes),
                     frequency |-> 1,
                     centrality |-> NULL]}

\* INSERT OR IGNORE INTO segment_nodes (segment_id, node_id, segment_scale)
LinkSegment(rows, segment_id, node_id, scale) ==
    IF \E r \in rows : r.segment_id = segment_id /\ r.node_id = node_id
    THEN rows
    ELSE rows \cup {[segment_id |-> segment_id,
                     node_id |-> node_id,
                     segment_scale |-> scale,
                     confidence |-> 1]}

\* f"{node_ids[i]}_{node_ids[j]}_cooccur"
EdgeIdOf(a, b) == a \o "_" \o b \o "_cooccur"

\* INSERT INTO edges ... VALUES (?, ?, ?, 'cooccurrence', 1.0, ?)
\* ON CONFLICT(edge_id) DO UPDATE SET weight = weight + 1.0
UpsertEdge(rows, a, b, evidence) ==
    LET edge_id == EdgeIdOf(a, b) IN
    IF \E r \in rows : r.edge_id = edge_id
    THEN {IF r.edge_id = edge_id
          THEN [r EXCEPT !.weight = @ + 1]
          ELSE r : r \in rows}
    ELSE rows \cup {[edge_id |-> edge_id,
                     from_node |-> a,
                     to_node |-> b,
                     edge_type |-> "cooccurrence",
                     weight |-> 1,
                     evidence |-> evidence]}

\* the first loop of update_graph: one upsert and one link per entity
RECURSIVE UpsertNodes(_, _, _, _)
UpsertNodes(db, entities, segment_id, scale) ==
    IF entities = <<>> THEN db
    ELSE UpsertNodes(
            [nodes |-> UpsertNode(db.nodes, Head(entities)),
             segment_nodes |-> LinkSegment(db.segment_nodes, segment_id,
                                           Head(entities).node_id, scale)],
            Tail(entities), segment_id, scale)

\* the index pairs (i, j), i < j, in the order of update_graph's two loops
RECURSIVE IndexPairs(_, _, _)
IndexPairs(i, j, n) ==
    IF i > n THEN <<>>
    ELSE IF j > n THEN IndexPairs(i + 1, i + 2, n)
         ELSE <<(<<i, j>>)>> \o IndexPairs(i, j + 1, n)

RECURSIVE UpsertEdges(_, _, _, _)
UpsertEdges(rows, node_ids, pairs, evidence) ==
    IF pairs = <<>> THEN rows
    ELSE UpsertEdges(
            UpsertEdge(rows, node_ids[Head(pairs)[1]], node_ids[Head(pairs)[2]],
                       evidence),
            node_ids, Tail(pairs), evidence)

\* a centrality that counts outgoing edges only, for comparison
UpdateCentralityOutgoing(node_rows, edge_rows) ==
    {[r EXCEPT !.centrality =
        Val(Cardinality({e \in edge_rows : e.from_node = r.node_id}))]
     : r \in node_rows}

\* update_centrality: UPDATE nodes SET centrality = (SELECT COUNT(*) ...)
UpdateCentrality(node_rows, edge_rows) ==
    {[r EXCEPT !.centrality =
        Val(Cardinality({e \in edge_rows :
                            e.from_node = r.node_id \/ e.to_node = r.node_id}))]
     : r \in node_rows}

\* update_graph(segment, scale) on the tables db, up to and including
\* update_centrality
UpdateGraph(db, segment, scale) ==
    LET entities == ExtractEntities(segment.text)
        node_ids == [i \in 1..Len(entities) |-> entities[i].node_id]
        up == UpsertNodes([nodes |-> db.nodes, segment_nodes |-> db.segment_nodes],
                          entities, segment.id, scale)
        new_edges == UpsertEdges(db.edges, node_ids,
                                 IndexPairs(1, 2, Len(node_ids)),
                                 [segment |-> segment.id, scale |-> scale])
    IN  [nodes |-> UpdateCentrality(up.nodes, new_edges),
         edges |-> new_edges,
         segment_nodes |-> up.segment_nodes]

\* query_graph(node_names): the rows of the SELECT DISTINCT, grouped by
\* segment; the result as a set (SQL fixes no row order)
QueryRows(node_rows, link_rows, node_names) ==
    {[segment_id |-> s.segment_id, scale |-> s.segment_scale,
      node |-> n.canonical_name, type |-> n.node_type]
     : <<s, n>> \in {p \in link_rows \X node_rows :
                        /\ p[1].node_id = p[2].node_id
                        /\ p[2].canonical_name \in SeqToSet(node_names)}}

\* every grouped segment, without the all(name in ...) filter
QueryGraphAny(node_rows, link_rows, node_names) ==
    LET rows == QueryRows(node_rows, link_rows, node_names)
        nodes_of(seg_id) == {[node |-> r.node, type |-> r.type, scale |-> r.scale]
                             : r \in {x \in rows : x.segment_id = seg_id}}
    IN  {[segment_id |-> seg_id, nodes |-> nodes_of(seg_id)]
         : seg_id \in {r.segment_id : r \in rows}}

\* query_graph(node_names): the grouped segments for which
\* all(name in node_names_in_seg for name in node_names), each with the
\* nodes that matched
QueryGraph(node_rows, link_rows, node_names) ==
    LET rows == QueryRows(node_rows, link_rows, node_names)
        seg_ids == {r.segment_id : r \in rows}
        nodes_of(seg_id) == {[node |-> r.node, type |-> r.type, scale |-> r.scale]
                             : r \in {x \in rows : x.segment_id = seg_id}}
    IN  {[segment_id |-> seg_id, nodes |-> nodes_of(seg_id)]
         : seg_id \in {s \in seg_ids :
                \A i \in 1..Len(node_names) :
                    node_names[i] \in {n.node : n \in nodes_of(s)}}}

\* json.loads(row['attributes']) if row['attributes'] else {}
LoadAttributes(blob) == IF blob = NULL THEN <<>> ELSE blob[1]

\* dict.get(key): "None" stands for Python's None
DictGet(d, key) == IF key \in DOMAIN d THEN d[key] ELSE "None"

\* the test without its last conjunct: any row after a dead one
IsResurrectionAnyCurr(prev, curr) ==
    /\ prev # NULL
    /\ prev[1] # <<>>
    /\ DictGet(prev[1], "status") = "dead"

\* the test of find_continuity_violations on one scanned row; prev is NULL
\* (prev_attributes is None) or Val(the previous row's dict)
IsResurrection(prev, curr) ==
    /\ prev # NULL
    /\ prev[1] # <<>>
    /\ DictGet(prev[1], "status") = "dead"
    /\ DictGet(curr, "status") = "alive"

\* ORDER BY s.segment_id: every order of the selected (link, node) pairs with
\* non-decreasing segment ids; SQL leaves the order of equal ids open
ContinuityScans(node_rows, link_rows, character) ==
    LET pairs == {q \in link_rows \X node_rows :
                    /\ q[1].node_id = q[2].node_id
                    /\ q[2].canonical_name = character
                    /\ q[2].node_type = "character"}
        n == Cardinality(pairs)
    IN  {[i \in 1..n |-> [segment_id |-> f[i][1].segment_id,
                          segment_scale |-> f[i][1].segment_scale,
                          attributes |-> f[i][2].attributes]]
         : f \in {g \in [1..n -> pairs] :
                    /\ \A i, j \in 1..n : i # j => g[i] # g[j]
                    /\ \A i \in 1..n, j \in 1..n :
                          i < j => g[i][1].segment_id <= g[j][1].segment_id}}

\* the loop of find_continuity_violations over the fetched rows
RECURSIVE ScanViolations(_, _, _)
ScanViolations(rows, prev, character) ==
    IF rows = <<>> THEN <<>>
    ELSE LET curr == LoadAttributes(Head(rows).attributes) IN
         (IF IsResurrection(prev, curr)
          THEN <<[type |-> "resurrection",
                  character |-> character,
                  segment |-> Head(rows).segment_id,
                  details |-> "Character appears alive after being dead"]>>
          ELSE <<>>)
         \o ScanViolations(Tail(rows), Val(curr), character)

\* find_continuity_violations(character), given the fetched rows
FindContinuityViolations(rows, character) ==
    ScanViolations(rows, NULL, character)

(* ----------------------------- segmenter ---------------------------- *)

\* A chapter text is [len: its length in characters; markers: the offsets at
\* which one of the five break patterns matches (match.start()); ents: what
\* nlp(text).ents holds, in document order, each [label, text, start_char];
\* words: the lengths of the words text.split() yields; quotes, actions: the
\* offsets of the quote marks and of the action verbs in it].

\* sorted(set): the members of a set of numbers in increasing order
RECURSIVE SortedSeq(_)
SortedSeq(S) ==
    IF S = {} THEN <<>>
    ELSE LET lo == CHOOSE x \in S : \A y \in S : x <= y
         IN  <<lo>> \o SortedSeq(S \ {lo})

\* the location-change loop of detect_scene_breaks; last is NULL (None) or
\* Val(the text of the last location entity)
RECURSIVE LocationBreaks(_, _)
LocationBreaks(ents, last) ==
    IF ents = <<>> THEN {}
    ELSE IF Head(ents).label \in {"LOC", "GPE"}
         THEN (IF last # NULL /\ Head(ents).text # last[1]
               THEN {Head(ents).start_char}
               ELSE {})
              \cup LocationBreaks(Tail(ents), Val(Head(ents).text))
         ELSE LocationBreaks(Tail(ents), last)

\* detect_scene_breaks(text)
DetectSceneBreaks(text) ==
    SortedSeq({0} \cup text.markers \cup LocationBreaks(text.ents, NULL))

\* the classification with "action" from ActionWordsOver hits on, for
\* comparison
ClassifySceneTypeAtLeast(quotes, action_words, length) ==
    IF 100 * quotes > DialoguePercent * (IF length > 1 THEN length ELSE 1)
    THEN "dialogue"
    ELSE IF action_words >= ActionWordsOver THEN "action"
    ELSE IF length < TransitionBelow THEN "transition"
    ELSE "description"

\* classify_scene_type on a text with the given number of quote marks,
\* number of action verbs and length: dialogue_ratio > 0.05 is
\* 100 * quotes > 5 * max(len, 1)
ClassifySceneType(quotes, action_words, length) ==
    IF 100 * quotes > DialoguePercent * (IF length > 1 THEN length ELSE 1)
    THEN "dialogue"
    ELSE IF action_words > ActionWordsOver THEN "action"
    ELSE IF length < TransitionBelow THEN "transition"
    ELSE "description"

\* classify_scene_type(text[start:end])
SceneTypeOfSlice(text, start, end) ==
    ClassifySceneType(Cardinality({q \in text.quotes : start <= q /\ q < end}),
                      Cardinality({q \in text.actions : start <= q /\ q < end}),
                      (IF end < text.len THEN end ELSE text.len) - start)

\* membership by start offset alone, for comparison
InRangeByStart(m, start, end) == m.start_char >= start /\ m.start_char < end

\* m.start_char >= start and m.end_char <= end
InRange(m, start, end) == m.start_char >= start /\ m.end_char <= end

\* [m.id for m in micro_segments if ...]
RECURSIVE MicroIdsIn(_, _, _)
MicroIdsIn(micro_segments, start, end) ==
    IF micro_segments = <<>> THEN <<>>
    ELSE (IF InRange(Head(micro_segments), start, end)
          THEN <<Head(micro_segments).id>>
          ELSE <<>>)
         \o MicroIdsIn(Tail(micro_segments), start, end)

\* the loop over range(len(scene_breaks) - 1), from index i (0-based) on
RECURSIVE BreakWindows(_, _, _, _, _)
BreakWindows(text, chapter, micro_segments, scene_breaks, i) ==
    IF i >= Len(scene_breaks) - 1 THEN <<>>
    ELSE LET start == scene_breaks[i + 1]
             end == IF i + 1 < Len(scene_breaks)
                    THEN scene_breaks[i + 2] ELSE text.len
             micro_ids == MicroIdsIn(micro_segments, start, end)
         IN  (IF micro_ids # <<>>
              THEN <<[id |-> <<"meso", chapter, i>>,
                      chapter |-> chapter,
                      start_char |-> start,
                      end_char |-> end,
                      micro_ids |-> micro_ids,
                      scene_type |-> SceneTypeOfSlice(text, start, end)]>>
              ELSE <<>>)
             \o BreakWindows(text, chapter, micro_segments, scene_breaks, i + 1)

\* len(' '.join(words[:n])) for words given by their lengths
RECURSIVE JoinedLen(_, _)
JoinedLen(words, n) ==
    IF n = 0 THEN 0
    ELSE IF n = 1 THEN words[1]
    ELSE JoinedLen(words, n - 1) + 1 + words[n]

\* create_sliding_windows, from window i at word start_idx on
RECURSIVE SlidingWindows(_, _, _, _, _)
SlidingWindows(text, chapter, micro_segments, i, start_idx) ==
    IF start_idx >= Len(text.words) THEN <<>>
    ELSE LET end_idx == IF start_idx + WindowSize < Len(text.words)
                        THEN start_idx + WindowSize ELSE Len(text.words)
             start_char == IF start_idx > 0
                           THEN JoinedLen(text.words, start_idx) ELSE 0
             end_char == JoinedLen(text.words, end_idx)
             micro_ids == MicroIdsIn(micro_segments, start_char, end_char)
         IN  (IF micro_ids # <<>>
              THEN <<[id |-> <<"meso", chapter, "w", i>>,
                      chapter |-> chapter,
                      start_char |-> start_char,
                      end_char |-> end_char,
                      micro_ids |-> micro_ids,
                      scene_type |-> SceneTypeOfSlice(text, start_char, end_char)]>>
              ELSE <<>>)
             \o SlidingWindows(text, chapter, micro_segments, i + 1,
                               start_idx + (WindowSize - Overlap))

\* create_meso_segments(text, chapter, micro_segments)
CreateMesoSegments(text, chapter, micro_segments) ==
    LET scene_breaks == DetectSceneBreaks(text) IN
    IF Len(scene_breaks) > 1
    THEN BreakWindows(text, chapter, micro_segments, scene_breaks, 0)
    ELSE SlidingWindows(text, chapter, micro_segments, 0, 0)

(* ------------------------- index and retrieval ----------------------- *)

ScaleNames == {"micro", "meso", "macro"}

\* model.encode + normalize_L2: the unit vector of a text
Embed(text) == text.vec

\* load_or_create_index(scale): the persisted index if its file exists,
\* else an empty IndexFlatIP
LoadOrCreateIndex(files, scale) ==
    IF files[scale] # NULL THEN files[scale][1] ELSE <<>>

\* the session's index of a scale once index_segments has fetched it
SessionIndex(session_indices, files, scale) ==
    IF scale \in DOMAIN session_indices
    THEN session_indices[scale]
    ELSE LoadOrCreateIndex(files, scale)

\* self.metadata.get(scale, [])
SessionMetadata(session_metadata, scale) ==
    IF scale \in DOMAIN session_metadata
    THEN session_metadata[scale]
    ELSE <<>>

\* the vectors held by the index files of all scales
StoredVectors(files) ==
    LET n(scale) == IF files[scale] = NULL THEN 0 ELSE Len(files[scale][1])
    IN  n("micro") + n("meso") + n("macro")

\* the index without the batch, for comparison
WrittenIndexStale(index, segments) == index

\* index.add(embeddings) ... faiss.write_index(index, path): the vectors the
\* index file holds after the call
WrittenIndex(index, segments) ==
    index \o [i \in 1..Len(segments) |-> Embed(segments[i].text)]

\* seg.embedding_id = start_id + i; asdict(seg)
SegmentRecords(segments, start_id) ==
    [i \in 1..Len(segments) |->
        [id |-> segments[i].id, text |-> segments[i].text,
         embedding_id |-> start_id + (i - 1)]]

\* dict assignment d[key] = value
DictPut(d, key, value) ==
    [x \in DOMAIN d \cup {key} |-> IF x = key THEN value ELSE d[x]]

\* the loop "for seg in segments: update_graph(seg, scale)"
RECURSIVE UpdateGraphAll(_, _, _)
UpdateGraphAll(db, segments, scale) ==
    IF segments = <<>> THEN db
    ELSE UpdateGraphAll(UpdateGraph(db, Head(segments), scale),
                        Tail(segments), scale)

\* the named presets of fractal_retrieve, weights in tenths, in dict order
PolicyWeights(policy) ==
    CASE policy = "line-fix" ->
            <<[scale |-> "micro", weight |-> 9], [scale |-> "meso", weight |-> 1],
              [scale |-> "macro", weight |-> 0]>>
      [] policy = "scene-fix" ->
            <<[scale |-> "micro", weight |-> 2], [scale |-> "meso", weight |-> 7],
              [scale |-> "macro", weight |-> 1]>>
      [] policy = "thematic" ->
            <<[scale |-> "micro", weight |-> 1], [scale |-> "meso", weight |-> 3],
              [scale |-> "macro", weight |-> 6]>>

DefaultWeights ==
    <<[scale |-> "micro", weight |-> 10], [scale |-> "meso", weight |-> 6],
      [scale |-> "macro", weight |-> 3]>>

\* the other precedence: explicit weights win over a recognised policy
EffectiveWeightsExplicitFirst(policy, scale_weights) ==
    IF scale_weights # NULL /\ scale_weights[1] # <<>>
    THEN scale_weights[1]
    ELSE IF policy # NULL /\ policy[1] \in {"line-fix", "scene-fix", "thematic"}
         THEN PolicyWeights(policy[1])
         ELSE DefaultWeights

\* explicit weights ignored altogether
EffectiveWeightsNoExplicit(policy, scale_weights) ==
    IF policy # NULL /\ policy[1] \in {"line-fix", "scene-fix", "thematic"}
    THEN PolicyWeights(policy[1])
    ELSE DefaultWeights

\* the "Apply policy" block of fractal_retrieve; policy and scale_weights are
\* NULL (None) or Val(value); the result is the dict the loop iterates
EffectiveWeights(policy, scale_weights) ==
    LET after_policy ==
            IF policy # NULL /\ policy[1] # ""
            THEN IF policy[1] \in {"line-fix", "scene-fix", "thematic"}
                 THEN Val(PolicyWeights(policy[1]))
                 ELSE scale_weights
            ELSE scale_weights
    IN  IF after_policy = NULL \/ after_policy[1] = <<>>
        THEN DefaultWeights
        ELSE after_policy[1]

\* int(k * weight * 2), weight in tenths (the float product agrees with the
\* exact one for every k below 45)
OverFetch(k, weight) == (2 * k * weight) \div 10

\* min(int(k * weight * 2), index.ntotal)
SearchK(k, weight, ntotal) ==
    IF OverFetch(k, weight) < ntotal THEN OverFetch(k, weight) ELSE ntotal

\* index.search(q_emb, search_k) on a flat inner-product index: the search_k
\* positions (from 0) of highest similarity, best first, the lower position
\* first among equals, each with its score (in hundredths)
RECURSIVE SearchFrom(_, _, _, _)
SearchFrom(index, query, search_k, taken) ==
    IF search_k = 0 \/ Cardinality(taken) = Len(index) THEN <<>>
    ELSE LET left == (0..(Len(index) - 1)) \ taken
             best == CHOOSE p \in left :
                        \A q \in left :
                            \/ query.sim[index[p + 1]] > query.sim[index[q + 1]]
                            \/ /\ query.sim[index[p + 1]] = query.sim[index[q + 1]]
                               /\ p <= q
         IN  <<[score |-> query.sim[index[best + 1]], idx |-> best]>>
             \o SearchFrom(index, query, search_k - 1, taken \cup {best})

Search(index, query, search_k) == SearchFrom(index, query, search_k, {})

\* compute_graph_boost(segment, query), in hundredths: for each PERSON or LOC
\* entity of the query, min(centrality / 100, 0.5) of the node of that
\* canonical name linked to the segment, if there is one and its centrality
\* is neither NULL nor 0
RECURSIVE GraphBoostOver(_, _, _, _)
GraphBoostOver(node_rows, link_rows, segment, entities) ==
    IF entities = <<>> THEN 0
    ELSE LET canonical == Canonicalize(Head(entities), "character")
             found == {n \in node_rows :
                         /\ n.canonical_name = canonical
                         /\ \E l \in link_rows :
                               l.segment_id = segment.id /\ l.node_id = n.node_id}
             row == CHOOSE n \in found : TRUE
             gain == IF found # {} /\ row.centrality # NULL /\ row.centrality[1] # 0
                     THEN IF row.centrality[1] < BoostCap
                          THEN row.centrality[1] ELSE BoostCap
                     ELSE 0
         IN  gain + GraphBoostOver(node_rows, link_rows, segment, Tail(entities))

ComputeGraphBoost(node_rows, link_rows, segment, query) ==
    LET query_entities ==
            SelectSeq(query.ents, LAMBDA e : e.label \in {"PERSON", "LOC"})
    IN  GraphBoostOver(node_rows, link_rows, segment,
                       [i \in 1..Len(query_entities) |-> query_entities[i].text])

\* the inner loop of fractal_retrieve over one scale's search hits; scores
\* are in thousandths: weight * score + 0.2 * graph_boost + 0.1 * 0.0
RECURSIVE HitCandidates(_, _, _, _, _, _, _)
HitCandidates(hits, meta, node_rows, link_rows, query, scale, weight) ==
    IF hits = <<>> THEN <<>>
    ELSE LET idx == Head(hits).idx
             rest == HitCandidates(Tail(hits), meta, node_rows, link_rows,
                                   query, scale, weight)
         IN  IF idx < 0 \/ idx >= Len(meta) THEN rest
             ELSE LET segment == meta[idx + 1]
                      graph_boost == ComputeGraphBoost(node_rows, link_rows,
                                                       segment, query)
                  IN  <<[scale |-> scale,
                         score |-> weight * Head(hits).score + 2 * graph_boost,
                         segment |-> segment,
                         graph_boost |-> graph_boost,
                         context_boost |-> 0]>> \o rest

\* the scales of the weight dict that fractal_retrieve searches
Searched(weights, session_indices) ==
    {i \in 1..Len(weights) :
        /\ weights[i].weight # 0
        /\ weights[i].scale \in DOMAIN session_indices
        /\ Len(session_indices[weights[i].scale]) # 0}

\* the outer loop of fractal_retrieve, from entry i of the weight dict on:
\* the list "results" before it is sorted
RECURSIVE CollectCandidates(_, _, _, _, _, _, _, _)
CollectCandidates(weights, i, session_indices, session_metadata, node_rows, link_rows, query, k) ==
    IF i > Len(weights) THEN <<>>
    ELSE LET scale == weights[i].scale
             weight == weights[i].weight
             rest == CollectCandidates(weights, i + 1, session_indices,
                                       session_metadata, node_rows, link_rows,
                                       query, k)
         IN  IF i \notin Searched(weights, session_indices) THEN rest
             ELSE HitCandidates(
                     Search(session_indices[scale], query,
                            SearchK(k, weight, Len(session_indices[scale]))),
                     SessionMetadata(session_metadata, scale),
                     node_rows, link_rows, query, scale, weight)
                  \o rest

\* an unstable descending sort: x goes ahead of the elements of equal score
RECURSIVE InsertByScoreUnstable(_, _)
InsertByScoreUnstable(sorted, x) ==
    IF sorted = <<>> THEN <<x>>
    ELSE IF Head(sorted).score > x.score
         THEN <<Head(sorted)>> \o InsertByScoreUnstable(Tail(sorted), x)
         ELSE <<x>> \o sorted

\* list.sort(key=score, reverse=True) is stable: x goes behind every element
\* whose score is at least its own
RECURSIVE InsertByScore(_, _)
InsertByScore(sorted, x) ==
    IF sorted = <<>> THEN <<x>>
    ELSE IF Head(sorted).score >= x.score
         THEN <<Head(sorted)>> \o InsertByScore(Tail(sorted), x)
         ELSE <<x>> \o sorted

RECURSIVE SortByScore(_, _)
SortByScore(sorted, rest) ==
    IF rest = <<>> THEN sorted
    ELSE SortByScore(InsertByScore(sorted, Head(rest)), Tail(rest))

\* results.sort(...); return results[:k]
TopK(candidates, k) ==
    LET sorted == SortByScore(<<>>, candidates)
    IN  SubSeq(sorted, 1, IF k < Len(sorted) THEN k ELSE Len(sorted))

(* ------------------------------ inputs ------------------------------ *)

\* what the NER model may report inside a segment text
NerEnts ==
    {[text |-> "Tom", label |-> "PERSON"],
     [text |-> "Paris", label |-> "LOC"]}

\* the motif sets a segment text may match
TextMotifs == {{}, {"frost"}}

Texts == [ents : BoundedSeq(NerEnts, MaxMentions), motifs : TextMotifs]

\* segment ids; the number stands for the id's rank in lexical order
SegIds == {1, 2}

\* names a caller may ask query_graph or find_continuity_violations for
QueryNames == {"Thomas", "Paris", "Nobody"}

\* attribute blobs a stored node may carry
Blobs ==
    {NULL, Val([status |-> "dead"]), Val([status |-> "alive"]),
     Val([label |-> "PERSON"])}

DbNodeRow(node_id, node_type, canonical_name, blob) ==
    [node_id |-> node_id, node_type |-> node_type,
     canonical_name |-> canonical_name, attributes |-> blob,
     frequency |-> 1, centrality |-> NULL]

\* node tables an existing graph database file may hold: node_id is the
\* primary key, so each id has at most one row
DbNodeTables ==
    {a \cup b \cup c :
        a \in {{}} \cup {{DbNodeRow("character_thomas", "character", "Thomas", x)}
                          : x \in Blobs},
        b \in {{}} \cup {{DbNodeRow("character_thomas_ii", "character", "Thomas", x)}
                          : x \in Blobs},
        c \in {{}} \cup {{DbNodeRow("setting_paris", "setting", n, x)}
                          : n \in {"Paris", "Thomas"},
                            x \in {NULL, Val([status |-> "dead"])}}}

\* the scale stored with segment id s
DbScaleOf(s) == IF s = 1 THEN "meso" ELSE "micro"

\* link tables: (segment_id, node_id) is the primary key
DbLinkTables ==
    SUBSET {[segment_id |-> s, node_id |-> n, segment_scale |-> DbScaleOf(s),
             confidence |-> 1]
            : s \in SegIds,
              n \in {"character_thomas", "character_thomas_ii", "setting_paris"}}

\* what the NER model may report in a chapter text: nothing, one location,
\* the same location twice, two different locations (a person between them),
\* and a first location that is no change
ChapterEnts ==
    {<<>>,
     <<[label |-> "GPE", text |-> "Paris", start_char |-> 1]>>,
     <<[label |-> "GPE", text |-> "Paris", start_char |-> 0],
       [label |-> "GPE", text |-> "Paris", start_char |-> 2]>>,
     <<[label |-> "GPE", text |-> "Paris", start_char |-> 0],
       [label |-> "PERSON", text |-> "Tom", start_char |-> 1],
       [label |-> "LOC", text |-> "Rome", start_char |-> 2]>>}

\* word lengths whose single-space join fits in len characters
WordSplits(len) ==
    {w \in BoundedSeq({1, 2}, len) : w # <<>> /\ JoinedLen(w, Len(w)) <= len}

\* chapter texts; the words matter to the sliding-window fallback only, so a
\* text with a break besides 0 carries one split
ChapterTexts ==
    UNION {
        {[len |-> t[1], markers |-> t[2], ents |-> t[3], words |-> w,
          quotes |-> {}, actions |-> {}]
         : w \in IF Len(DetectSceneBreaks([markers |-> t[2], ents |-> t[3]])) > 1
                 THEN {[i \in 1..t[1] |-> 1]}
                 ELSE WordSplits(t[1])}
        : t \in
            {t \in (1..MaxTextLen) \X (SUBSET (0..(MaxTextLen - 1))) \X ChapterEnts :
                /\ \A m \in t[2] : m < t[1]
                /\ \A i \in 1..Len(t[3]) : t[3][i].start_char < t[1]}}

\* micro segments of a text of len characters, as the upstream segmenter
\* delivers them: in text order, non-empty, not overlapping; the id is the
\* position in the chapter
RECURSIVE MicroRanges(_, _, _)
MicroRanges(from, len, n) ==
    {<<>>} \cup
    (IF n = 0 THEN {}
     ELSE UNION {{<<(<<s, e>>)>> \o rest : rest \in MicroRanges(e, len, n - 1)}
                 : <<s, e>> \in {r \in (from..len) \X (from..len) : r[1] < r[2]}})

MicroSegmentsOf(len) ==
    {[i \in 1..Len(b) |-> [id |-> i, start_char |-> b[i][1], end_char |-> b[i][2]]]
     : b \in MicroRanges(0, len, MaxMicro)}

\* lengths of the texts given to classify_scene_type
ClassifyLengths ==
    {0, 1, 20, 40, 100, TransitionBelow - 1, TransitionBelow, TransitionBelow + 1}

\* texts given to classify_scene_type, by their counts: an action verb has
\* at least 3 letters and two hits are separated by a non-word character
\* (which may be a quote mark)
ClassifyTexts ==
    {t \in [quotes : 0..MaxQuotes, action_words : 0..MaxActionHits,
            len : ClassifyLengths] :
        /\ t.quotes + 3 * t.action_words <= t.len
        /\ 4 * t.action_words <= t.len + 1}

\* the segments index_segments may be given: a text is what the NER model and
\* the motif patterns find in it, and its unit embedding
IndexSegs ==
    {[id |-> 1,
      text |-> [ents |-> <<[text |-> "Tom", label |-> "PERSON"]>>,
                motifs |-> {}, vec |-> "v1"]],
     [id |-> 2,
      text |-> [ents |-> <<[text |-> "Paris", label |-> "LOC"],
                           [text |-> "Tom", label |-> "PERSON"]>>,
                motifs |-> {"frost"}, vec |-> "v2"]]}

\* queries: the entities the NER model finds in the query and its inner
\* product (in hundredths) with each unit embedding
Queries ==
    {[ents |-> <<>>, sim |-> [v \in {"v1", "v2"} |-> IF v = "v1" THEN 90 ELSE 40]],
     [ents |-> <<[text |-> "Tom", label |-> "PERSON"]>>,
      sim |-> [v \in {"v1", "v2"} |-> 50]]}

\* the policy argument: None, the three presets, a name that is no preset
Policies ==
    {NULL, Val("line-fix"), Val("scene-fix"), Val("thematic"), Val("other")}

\* the scale_weights argument: None, or a dict in its insertion order
WeightArgs ==
    {NULL,
     Val(<<>>),
     Val(<<[scale |-> "micro", weight |-> 0], [scale |-> "meso", weight |-> 10],
           [scale |-> "macro", weight |-> 0]>>),
     Val(<<[scale |-> "macro", weight |-> 10], [scale |-> "micro", weight |-> 10]>>)}

(* ------------------------------ history ----------------------------- *)

\* tally.calls: update_graph calls so far; tally.mentions[id]: GraphNode
\* objects with that node id extracted so far; tally.together[{a, b}]: calls
\* whose extraction held both a and b
TallyAfter(t, node_ids) ==
    LET ids == SeqToSet(node_ids)
        pairs == {{a, b} : <<a, b>> \in {p \in ids \X ids : p[1] # p[2]}}
    IN  [calls |-> t.calls + 1,
         mentions |-> [k \in DOMAIN t.mentions \cup ids |->
                          Get(t.mentions, k) + Count(k, node_ids)],
         together |-> [k \in DOMAIN t.together \cup pairs |->
                          Get(t.together, k) + IF k \in pairs THEN 1 ELSE 0]]

RECURSIVE TallyAll(_, _)
TallyAll(t, segments) ==
    IF segments = <<>> THEN t
    ELSE LET entities == ExtractEntities(Head(segments).text) IN
         TallyAll(TallyAfter(t, [i \in 1..Len(entities) |-> entities[i].node_id]),
                  Tail(segments))

(* ------------------------------ actions ----------------------------- *)

NoRet == [op |-> "none"]

\* no index_segments call is running
Idle == [phase |-> "idle"]

Init ==
    /\ nodes = {}
    /\ edges = {}
    /\ segment_nodes = {}
    /\ tally = [calls |-> 0, mentions |-> <<>>, together |-> <<>>]
    /\ disk_index = [s \in ScaleNames |-> NULL]
    /\ disk_meta = [s \in ScaleNames |-> NULL]
    /\ indices = <<>>
    /\ metadata = <<>>
    /\ pending = Idle
    /\ ret = NoRet

\* NarrativeGraphManager.update_graph(segment, scale)
UpdateGraphCall ==
    \E id \in SegIds, text \in Texts :
        /\ tally.calls < MaxUpdates
        /\ LET db == UpdateGraph([nodes |-> nodes, edges |-> edges,
                                  segment_nodes |-> segment_nodes],
                                 [id |-> id, text |-> text], "meso")
               entities == ExtractEntities(text)
           IN  /\ nodes' = db.nodes
               /\ edges' = db.edges
               /\ segment_nodes' = db.segment_nodes
               /\ tally' = TallyAfter(tally,
                            [i \in 1..Len(entities) |-> entities[i].node_id])
        /\ ret' = NoRet
        /\ UNCHANGED indexVars

NextGraph == UpdateGraphCall

SpecGraph == Init /\ [][NextGraph]_vars

(* A graph database file as a manager may find it on start (the tables are
   created only IF NOT EXISTS), and the read-only calls on it. A read-only
   call changes no table, so one call per behaviour is recorded. *)
InitDb ==
    /\ nodes \in DbNodeTables
    /\ segment_nodes \in DbLinkTables
    /\ edges = {}
    /\ tally = [calls |-> 0, mentions |-> <<>>, together |-> <<>>]
    /\ disk_index = [s \in ScaleNames |-> NULL]
    /\ disk_meta = [s \in ScaleNames |-> NULL]
    /\ indices = <<>>
    /\ metadata = <<>>
    /\ pending = Idle
    /\ ret = NoRet

\* NarrativeGraphManager.query_graph(node_names)
QueryGraphCall ==
    /\ ret = NoRet
    /\ \E node_names \in BoundedSeq(QueryNames, MaxQueryNames) :
        /\ ret' = [op |-> "query_graph", node_names |-> node_names,
                   result |-> QueryGraph(nodes, segment_nodes, node_names)]
        /\ UNCHANGED <<graphVars, indexVars>>

\* NarrativeGraphManager.find_continuity_violations(character)
FindContinuityViolationsCall ==
    /\ ret = NoRet
    /\ \E character \in QueryNames :
        \E scan \in ContinuityScans(nodes, segment_nodes, character) :
            /\ ret' = [op |-> "find_continuity_violations",
                       character |-> character, scan |-> scan,
                       result |-> FindContinuityViolations(scan, character)]
            /\ UNCHANGED <<graphVars, indexVars>>

NextDb == QueryGraphCall \/ FindContinuityViolationsCall

SpecDb == InitDb /\ [][NextDb]_vars

\* a graph built by update_graph alone, and continuity checks on it
NextGraphScan == UpdateGraphCall \/ FindContinuityViolationsCall

SpecGraphScan == Init /\ [][NextGraphScan]_vars

\* MultiScaleSegmenter.create_meso_segments(text, chapter, micro_segments)
CreateMesoSegmentsCall ==
    /\ ret = NoRet
    /\ \E text \in ChapterTexts :
        \E micro_segments \in MicroSegmentsOf(text.len) :
            /\ ret' = [op |-> "create_meso_segments", text |-> text,
                       micro_segments |-> micro_segments,
                       scene_breaks |-> DetectSceneBreaks(text),
                       result |-> CreateMesoSegments(text, "ch1", micro_segments)]
            /\ UNCHANGED <<graphVars, indexVars>>

NextSeg == CreateMesoSegmentsCall

SpecSeg == Init /\ [][NextSeg]_vars

\* MultiScaleSegmenter.classify_scene_type(text)
ClassifySceneTypeCall ==
    /\ ret = NoRet
    /\ \E t \in ClassifyTexts :
        /\ ret' = [op |-> "classify_scene_type", quotes |-> t.quotes,
                   action_words |-> t.action_words, len |-> t.len,
                   result |-> ClassifySceneType(t.quotes, t.action_words, t.len)]
        /\ UNCHANGED <<graphVars, indexVars>>

NextClassify == ClassifySceneTypeCall

SpecClassify == Init /\ [][NextClassify]_vars

(* One retriever session after another over the same index files and graph
   database. index_segments raises on an empty batch (normalize_L2 of an
   empty array), so batches hold at least one segment. fractal_retrieve
   changes nothing, so a behaviour records one call of it, as its last step. *)

\* FractalRetriever.index_segments(segments, scale)
IndexSegments ==
    /\ ret = NoRet
    /\ \E scale \in ScaleNames, segments \in BoundedSeq(IndexSegs, MaxBatch) :
        LET index == SessionIndex(indices, disk_index, scale)
            start_id == Len(index)
            new_index == index \o [i \in 1..Len(segments) |-> Embed(segments[i].text)]
            new_meta == SessionMetadata(metadata, scale)
                        \o SegmentRecords(segments, start_id)
            db == IF scale = "meso"
                  THEN UpdateGraphAll([nodes |-> nodes, edges |-> edges,
                                       segment_nodes |-> segment_nodes],
                                      segments, scale)
                  ELSE [nodes |-> nodes, edges |-> edges,
                        segment_nodes |-> segment_nodes]
        IN  /\ segments # <<>>
            /\ StoredVectors(disk_index) + Len(segments) <= MaxVectors
            /\ indices' = DictPut(indices, scale, new_index)
            /\ metadata' = DictPut(metadata, scale, new_meta)
            /\ disk_index' = [disk_index EXCEPT ![scale] = Val(new_index)]
            /\ disk_meta' = [disk_meta EXCEPT ![scale] = Val(new_meta)]
            /\ nodes' = db.nodes
            /\ edges' = db.edges
            /\ segment_nodes' = db.segment_nodes
            /\ tally' = IF scale = "meso" THEN TallyAll(tally, segments) ELSE tally
            /\ ret' = NoRet
            /\ UNCHANGED pending

\* FractalRetriever.__init__ in a new process: empty indices and metadata
\* dicts; the files and the graph database stay
NewSession ==
    /\ ret = NoRet
    /\ indices # <<>>
    /\ indices' = <<>>
    /\ metadata' = <<>>
    /\ ret' = NoRet
    /\ UNCHANGED <<graphVars, disk_index, disk_meta, pending>>

\* FractalRetriever.fractal_retrieve(query, k, scale_weights, policy).
\* index.search with k = 0 (an over-fetch below 1) either raises or returns
\* nothing, by the FAISS build.
FractalRetrieve ==
    /\ ret = NoRet
    /\ \E query \in Queries, k \in 1..MaxK, scale_weights \in WeightArgs,
          policy \in Policies :
        LET weights == EffectiveWeights(policy, scale_weights)
            candidates == CollectCandidates(weights, 1, indices, metadata, nodes,
                                            segment_nodes, query, k)
            zero_k == \E i \in Searched(weights, indices) :
                         OverFetch(k, weights[i].weight) = 0
        IN  \E raised \in IF zero_k THEN {TRUE, FALSE} ELSE {FALSE} :
                ret' = [op |-> "fractal_retrieve", query |-> query, k |-> k,
                        scale_weights |-> scale_weights, policy |-> policy,
                        weights |-> weights, raised |-> raised,
                        candidates |-> IF raised THEN <<>> ELSE candidates,
                        result |-> IF raised THEN <<>> ELSE TopK(candidates, k)]
    /\ UNCHANGED <<graphVars, indexVars>>

(* index_segments step by step, for a process that may die inside the call:
   the index file is written, then the metadata file, then (meso only)
   update_graph runs segment by segment, each with its own commit. *)

\* index_segments up to and including faiss.write_index
IndexSegmentsWriteIndex ==
    /\ pending = Idle
    /\ \E scale \in ScaleNames, segments \in BoundedSeq(IndexSegs, MaxBatch) :
        LET index == SessionIndex(indices, disk_index, scale)
            new_index == WrittenIndex(index, segments)
            new_meta == SessionMetadata(metadata, scale)
                        \o SegmentRecords(segments, Len(index))
        IN  /\ segments # <<>>
            /\ StoredVectors(disk_index) + Len(segments) <= MaxVectors
            /\ indices' = DictPut(indices, scale, new_index)
            /\ metadata' = DictPut(metadata, scale, new_meta)
            /\ disk_index' = [disk_index EXCEPT ![scale] = Val(new_index)]
            /\ pending' = [phase |-> "save_metadata", scale |-> scale,
                           segments |-> segments]
            /\ UNCHANGED <<graphVars, disk_meta, ret>>

\* np.save of the scale's metadata list; the call ends here unless the scale
\* is meso
IndexSegmentsSaveMetadata ==
    /\ pending.phase = "save_metadata"
    /\ disk_meta' = [disk_meta EXCEPT ![pending.scale] =
                        Val(metadata[pending.scale])]
    /\ pending' = IF pending.scale = "meso"
                  THEN [pending EXCEPT !.phase = "update_graph"]
                  ELSE Idle
    /\ UNCHANGED <<graphVars, disk_index, indices, metadata, ret>>

\* one round of "for seg in segments: update_graph(seg, scale)"
IndexSegmentsUpdateGraph ==
    /\ pending.phase = "update_graph"
    /\ LET seg == Head(pending.segments)
           entities == ExtractEntities(seg.text)
           db == UpdateGraph([nodes |-> nodes, edges |-> edges,
                              segment_nodes |-> segment_nodes],
                             seg, pending.scale)
       IN  /\ nodes' = db.nodes
           /\ edges' = db.edges
           /\ segment_nodes' = db.segment_nodes
           /\ tally' = TallyAfter(tally,
                         [i \in 1..Len(entities) |-> entities[i].node_id])
    /\ pending' = IF Tail(pending.segments) = <<>>
                  THEN Idle
                  ELSE [pending EXCEPT !.segments = Tail(@)]
    /\ UNCHANGED <<disk_index, disk_meta, indices, metadata, ret>>

\* the process dies inside index_segments and a new one starts
\* (FractalRetriever.__init__): the files and the committed tables stay
Crash ==
    /\ pending # Idle
    /\ indices' = <<>>
    /\ metadata' = <<>>
    /\ pending' = Idle
    /\ UNCHANGED <<graphVars, disk_index, disk_meta, ret>>

NextIngest ==
    \/ IndexSegmentsWriteIndex
    \/ IndexSegmentsSaveMetadata
    \/ IndexSegmentsUpdateGraph
    \/ Crash

SpecIngest == Init /\ [][NextIngest]_vars

NextIndex == IndexSegments \/ NewSession \/ FractalRetrieve

SpecIndex == Init /\ [][NextIndex]_vars

(* ------------------------------ claims ------------------------------ *)

\* the status a stored blob carries
StatusOf(blob) == DictGet(LoadAttributes(blob), "status")

\* C2: for any two nodes A and B, the co-occurrence edge between them exists
\* once they were extracted together, and every co-occurrence edge between
\* them weighs the number of update_graph calls whose segment yielded both.
C2_CooccurrenceWeight ==
    \A a \in DOMAIN tally.mentions, b \in DOMAIN tally.mentions :
        a # b =>
            LET between == {e \in edges :
                              \/ e.from_node = a /\ e.to_node = b
                              \/ e.from_node = b /\ e.to_node = a}
                n == Get(tally.together, {a, b})
            IN  /\ n > 0 => between # {}
                /\ \A e \in between : e.weight = n

\* C3: no two rows of nodes share a node id, and a node's frequency is the
\* number of times it was extracted: 1 on insert, one more for each
\* re-extraction.
C3_IdempotentUpsert ==
    /\ \A r1 \in nodes, r2 \in nodes : r1.node_id = r2.node_id => r1 = r2
    /\ \A r \in nodes : r.frequency = Get(tally.mentions, r.node_id)
    /\ \A id \in DOMAIN tally.mentions :
          tally.mentions[id] > 0 => \E r \in nodes : r.node_id = id

\* a node was extracted again by a later update_graph call
C3_Witness ==
    /\ tally.calls >= 2
    /\ \E r \in nodes : r.frequency >= 2

\* the positions of a scan at which the previous row's blob says dead and
\* the row's own blob says alive
ResurrectionPositions(scan) ==
    {i \in 2..Len(scan) :
        /\ StatusOf(scan[i - 1].attributes) = "dead"
        /\ StatusOf(scan[i].attributes) = "alive"}

\* C6: find_continuity_violations reports one 'resurrection' violation for
\* each scanned row whose predecessor in the scan has status dead while the
\* row has status alive, naming that row's segment, and nothing else.
C6_ResurrectionExactly ==
    ret.op = "find_continuity_violations" =>
        LET hits == ResurrectionPositions(ret.scan) IN
        /\ Len(ret.result) = Cardinality(hits)
        /\ \A i \in hits :
              LET k == Cardinality({j \in hits : j <= i}) IN
              /\ ret.result[k].type = "resurrection"
              /\ ret.result[k].segment = ret.scan[i].segment_id
              /\ ret.result[k].character = ret.character

\* segment A (dead) then segment B (alive): one violation, naming B
C6_Witness ==
    /\ ret.op = "find_continuity_violations"
    /\ Len(ret.scan) = 2
    /\ ret.scan[1].segment_id < ret.scan[2].segment_id
    /\ StatusOf(ret.scan[1].attributes) = "dead"
    /\ StatusOf(ret.scan[2].attributes) = "alive"
    /\ Len(ret.result) = 1
    /\ ret.result[1].segment = ret.scan[2].segment_id

\* the segments whose linked nodes' canonical names include every name
SupersetSegments(node_names) ==
    {s \in {l.segment_id : l \in segment_nodes} :
        SeqToSet(node_names) \subseteq
            {n.canonical_name : n \in {m \in nodes :
                \E l \in segment_nodes :
                    l.segment_id = s /\ l.node_id = m.node_id}}}

\* C9 as stated: query_graph returns exactly the segments whose linked
\* nodes' canonical names are a superset of node_names.
C9_SupersetAnyNames ==
    ret.op = "query_graph" =>
        {r.segment_id : r \in ret.result} = SupersetSegments(ret.node_names)

\* C9: for a non-empty node_names query_graph returns exactly the segments
\* whose linked nodes' canonical names are a superset of node_names (none,
\* when a name matches no node); for an empty node_names it returns nothing.
C9_SupersetNonEmpty ==
    ret.op = "query_graph" =>
        IF ret.node_names = <<>>
        THEN ret.result = {}
        ELSE {r.segment_id : r \in ret.result} = SupersetSegments(ret.node_names)

\* a two-name query that some segment satisfies and another linked segment
\* does not
C9_Witness ==
    /\ ret.op = "query_graph"
    /\ Len(ret.node_names) = 2
    /\ ret.node_names[1] # ret.node_names[2]
    /\ ret.result # {}
    /\ \E l \in segment_nodes :
          l.segment_id \notin {r.segment_id : r \in ret.result}

\* the meso segments of a result whose micro-id list holds id
MesoHolding(result, id) ==
    {k \in 1..Len(result) : id \in SeqToSet(result[k].micro_ids)}

\* C4: with at least 2 detected breaks, a micro segment lying fully within a
\* window [break_i, break_{i+1}) is listed by exactly one meso segment (once),
\* and a micro segment spanning a break is listed by none.
C4_MesoCoverage ==
    (ret.op = "create_meso_segments" /\ Len(ret.scene_breaks) >= 2) =>
        \A p \in 1..Len(ret.micro_segments) :
            LET m == ret.micro_segments[p]
                b == ret.scene_breaks
            IN  /\ (\E i \in 1..(Len(b) - 1) :
                        b[i] <= m.start_char /\ m.end_char <= b[i + 1])
                    => /\ Cardinality(MesoHolding(ret.result, m.id)) = 1
                       /\ \A k \in MesoHolding(ret.result, m.id) :
                             Count(m.id, ret.result[k].micro_ids) = 1
                /\ (\E i \in 1..Len(b) : m.start_char < b[i] /\ b[i] < m.end_char)
                    => MesoHolding(ret.result, m.id) = {}

\* three breaks, two meso segments, one micro segment inside a window and
\* one across a break
C4_Witness ==
    /\ ret.op = "create_meso_segments"
    /\ Len(ret.scene_breaks) >= 3
    /\ Len(ret.result) = 2
    /\ \E p \in 1..Len(ret.micro_segments) :
          \E i \in 1..Len(ret.scene_breaks) :
              /\ ret.micro_segments[p].start_char < ret.scene_breaks[i]
              /\ ret.scene_breaks[i] < ret.micro_segments[p].end_char

\* C5: breaks {0, b} from one marker at an interior offset b, with micro
\* segments fully before b and fully after b: exactly 2 meso segments, the
\* text before the marker and the text from the marker to the end, with
\* disjoint micro-id lists that are contiguous runs of the micro segments.
C5_OneMarkerTwoMeso ==
    (/\ ret.op = "create_meso_segments"
     /\ Len(ret.scene_breaks) = 2
     /\ ret.text.markers = {ret.scene_breaks[2]}
     /\ \E p \in 1..Len(ret.micro_segments) :
           ret.micro_segments[p].end_char <= ret.scene_breaks[2]
     /\ \E p \in 1..Len(ret.micro_segments) :
           ret.micro_segments[p].start_char >= ret.scene_breaks[2])
    => /\ Len(ret.result) = 2
       /\ ret.result[1].start_char = 0
       /\ ret.result[1].end_char = ret.scene_breaks[2]
       /\ ret.result[2].start_char = ret.scene_breaks[2]
       /\ ret.result[2].end_char = ret.text.len
       /\ SeqToSet(ret.result[1].micro_ids) \cap SeqToSet(ret.result[2].micro_ids) = {}
       /\ \A k \in 1..2 :
             \A i \in 1..(Len(ret.result[k].micro_ids) - 1) :
                 ret.result[k].micro_ids[i + 1] = ret.result[k].micro_ids[i] + 1

\* C1: for every scale a session holds an index of, the scale's metadata
\* list is as long as its index (index.ntotal).
C1_MetadataMatchesIndex ==
    \A scale \in DOMAIN indices :
        Len(SessionMetadata(metadata, scale)) = Len(indices[scale])

\* a weight dict as a function from scale to weight
AsMap(weights) ==
    [s \in {weights[i].scale : i \in 1..Len(weights)} |->
        (CHOOSE w \in SeqToSet(weights) : w.scale = s).weight]

\* C7: under a named policy the effective weights are the policy's preset
\* (line-fix 0.9/0.1/0.0, scene-fix 0.2/0.7/0.1, thematic 0.1/0.3/0.6, in
\* tenths), whatever scale_weights is passed; with neither a policy nor
\* weights they are 1.0/0.6/0.3.
C7_PolicyPrecedence ==
    ret.op = "fractal_retrieve" =>
        /\ ret.policy = Val("line-fix") =>
              AsMap(ret.weights) = [micro |-> 9, meso |-> 1, macro |-> 0]
        /\ ret.policy = Val("scene-fix") =>
              AsMap(ret.weights) = [micro |-> 2, meso |-> 7, macro |-> 1]
        /\ ret.policy = Val("thematic") =>
              AsMap(ret.weights) = [micro |-> 1, meso |-> 3, macro |-> 6]
        /\ (ret.policy = NULL /\ ret.scale_weights = NULL) =>
              AsMap(ret.weights) = [micro |-> 10, meso |-> 6, macro |-> 3]

\* a preset policy passed together with explicit weights, and results
C7_Witness ==
    /\ ret.op = "fractal_retrieve"
    /\ ret.policy = Val("line-fix")
    /\ ret.scale_weights # NULL
    /\ ret.scale_weights[1] # <<>>
    /\ ret.result # <<>>

\* scale_weights = {'micro': 0, 'meso': 1, 'macro': 0}
MesoOnly ==
    Val(<<[scale |-> "micro", weight |-> 0], [scale |-> "meso", weight |-> 10],
          [scale |-> "macro", weight |-> 0]>>)

\* C8: no returned result is of a scale whose effective weight is 0; with
\* scale_weights = {micro: 0, meso: 1, macro: 0} and no policy every result
\* is of the meso scale.
C8_NoZeroWeightScale ==
    (ret.op = "fractal_retrieve" /\ ~ret.raised) =>
        /\ \A r \in SeqToSet(ret.result) :
              \A w \in SeqToSet(ret.weights) :
                  w.scale = r.scale => w.weight # 0
        /\ (ret.policy = NULL /\ ret.scale_weights = MesoOnly) =>
              \A r \in SeqToSet(ret.result) : r.scale = "meso"

\* the meso-only query answered from a session that also holds a micro index
C8_Witness ==
    /\ ret.op = "fractal_retrieve"
    /\ ret.policy = NULL
    /\ ret.scale_weights = MesoOnly
    /\ ret.result # <<>>
    /\ "micro" \in DOMAIN indices
    /\ "micro" \in DOMAIN metadata

\* the first position of x in a list
FirstPos(list, x) == CHOOSE p \in 1..Len(list) :
                        list[p] = x /\ \A q \in 1..(p - 1) : list[q] # x

\* C10: the returned list has at most k entries, all of them collected
\* candidates; its scores do not increase; entries of equal score keep the
\* order in which they were collected; no candidate left out scores
\* strictly higher than a returned one.
C10_TopKStable ==
    (ret.op = "fractal_retrieve" /\ ~ret.raised) =>
        /\ Len(ret.result) <= ret.k
        /\ SeqToSet(ret.result) \subseteq SeqToSet(ret.candidates)
        /\ \A i \in 1..Len(ret.result), j \in 1..Len(ret.result) :
              i < j =>
                /\ ret.result[i].score >= ret.result[j].score
                /\ ret.result[i].score = ret.result[j].score =>
                      FirstPos(ret.candidates, ret.result[i])
                          < FirstPos(ret.candidates, ret.result[j])
        /\ \A c \in SeqToSet(ret.candidates) \ SeqToSet(ret.result) :
              \A r \in SeqToSet(ret.result) : c.score <= r.score

\* candidates of two scales, more than k of them, two returned with the
\* same score
C10_Witness ==
    /\ ret.op = "fractal_retrieve"
    /\ ~ret.raised
    /\ Len(ret.candidates) > ret.k
    /\ Len(ret.result) = ret.k
    /\ \E i \in 1..Len(ret.candidates), j \in 1..Len(ret.candidates) :
          ret.candidates[i].scale # ret.candidates[j].scale
    /\ \E i \in 1..Len(ret.result), j \in 1..Len(ret.result) :
          i < j /\ ret.result[i].score = ret.result[j].score

\* C11: between any two nodes there is at most one co-occurrence edge,
\* whichever of the two was extracted first in a segment.
C11_OneEdgePerPair ==
    \A e1 \in edges, e2 \in edges :
        (/\ e1.edge_type = "cooccurrence"
         /\ e2.edge_type = "cooccurrence"
         /\ {e1.from_node, e1.to_node} = {e2.from_node, e2.to_node})
        => e1 = e2

\* C12: after every completed update_graph call the centrality of every node
\* of the graph is the number of edges that have the node as an endpoint.
C12_CentralityIsDegree ==
    \A r \in nodes :
        r.centrality =
            Val(Cardinality({e \in edges :
                                r.node_id \in {e.from_node, e.to_node}}))

\* after two calls: a node without any edge beside a node with two edges
C12_Witness ==
    /\ tally.calls = 2
    /\ \E r \in nodes : r.centrality = Val(0)
    /\ \E r \in nodes : r.centrality # NULL /\ r.centrality[1] >= 2


\* quote-mark density greater than 0.05: quotes / max(len, 1) > 1 / 20
DenseQuotes(quotes, len) == 20 * quotes > (IF len > 1 THEN len ELSE 1)

\* C13 as stated: dialogue when the quote-mark density is greater than 0.05;
\* otherwise action when the text has at least 5 action-verb hits; otherwise
\* transition when it is shorter than 500 characters; otherwise description.
C13_ActionAtLeastFive ==
    ret.op = "classify_scene_type" =>
        ret.result =
            IF DenseQuotes(ret.quotes, ret.len) THEN "dialogue"
            ELSE IF ret.action_words >= 5 THEN "action"
            ELSE IF ret.len < 500 THEN "transition"
            ELSE "description"

\* C13: dialogue when the quote-mark density is greater than 0.05; otherwise
\* action when the text has more than 5 (at least 6) action-verb hits;
\* otherwise transition when it is shorter than 500 characters; otherwise
\* description.
C13_ActionMoreThanFive ==
    ret.op = "classify_scene_type" =>
        ret.result =
            IF DenseQuotes(ret.quotes, ret.len) THEN "dialogue"
            ELSE IF ret.action_words >= 6 THEN "action"
            ELSE IF ret.len < 500 THEN "transition"
            ELSE "description"

\* a long text with exactly 5 action-verb hits and few quote marks
C13_Witness ==
    /\ ret.op = "classify_scene_type"
    /\ ret.action_words = 5
    /\ ret.quotes = 25
    /\ ret.len = 500
    /\ ret.result = "description"


\* the vectors of a scale's index file
FileVectors(files, scale) ==
    IF files[scale] = NULL THEN <<>> ELSE files[scale][1]

\* the segments whose vector the meso index file holds, that have an
\* extractable entity and no row in segment_nodes
IndexedUnlinked ==
    {seg \in IndexSegs :
        /\ Embed(seg.text) \in SeqToSet(FileVectors(disk_index, "meso"))
        /\ ExtractEntities(seg.text) # <<>>
        /\ ~\E l \in segment_nodes : l.segment_id = seg.id}

\* C14: while index_segments has graph updates of a meso batch ahead of it,
\* the meso index file and metadata file already hold every segment still
\* awaiting its update; and no step, a crash included, takes a vector out of
\* an index file.
C14_IndexBeforeGraph ==
    /\ [](pending.phase = "update_graph" =>
            \A i \in 1..Len(pending.segments) :
                /\ Embed(pending.segments[i].text)
                      \in SeqToSet(FileVectors(disk_index, "meso"))
                /\ \E r \in SeqToSet(FileVectors(disk_meta, "meso")) :
                      r.id = pending.segments[i].id)
    /\ [][\A scale \in ScaleNames :
            /\ Len(FileVectors(disk_index, scale))
                  <= Len(FileVectors(disk_index', scale))
            /\ SubSeq(FileVectors(disk_index', scale), 1,
                      Len(FileVectors(disk_index, scale)))
                  = FileVectors(disk_index, scale)]_vars

\* after a crash, in the new process: the meso index file and metadata file
\* hold a segment with an extractable entity that no segment_nodes row links
C14_Witness ==
    /\ pending = Idle
    /\ indices = <<>>
    /\ \E seg \in IndexedUnlinked :
          \E r \in SeqToSet(FileVectors(disk_meta, "meso")) : r.id = seg.id


\* C15: in a fresh session (nothing ingested in it) fractal_retrieve collects
\* candidates from every scale that has a non-zero weight w with
\* 2 * k * w >= 1 and a non-empty persisted index.
C15_RetrievableLater ==
    (ret.op = "fractal_retrieve" /\ indices = <<>>) =>
        \A w \in SeqToSet(ret.weights) :
            (/\ w.weight # 0
             /\ 2 * ret.k * w.weight >= 10
             /\ FileVectors(disk_index, w.scale) # <<>>)
            => \E c \in SeqToSet(ret.candidates) : c.scale = w.scale

\* C16: in every scale's metadata list the record at position p carries
\* embedding_id = p and is the segment whose vector sits at position p of
\* the scale's index.
C16_EmbeddingIdIsPosition ==
    \A scale \in DOMAIN metadata :
        \A p \in 1..Len(metadata[scale]) :
            /\ metadata[scale][p].embedding_id = p - 1
            /\ p <= Len(indices[scale])
            /\ Embed(metadata[scale][p].text) = indices[scale][p]


\* C17: on a graph built by update_graph alone find_continuity_violations
\* returns the empty list: at most one character node bears the name, all
\* scanned rows carry the same attribute blob, and no blob has a status key.
C17_NoViolationsFromUpdates ==
    ret.op = "find_continuity_violations" =>
        /\ ret.result = <<>>
        /\ Cardinality({n \in nodes : /\ n.canonical_name = ret.character
                                      /\ n.node_type = "character"}) <= 1
        /\ \A i \in 1..Len(ret.scan), j \in 1..Len(ret.scan) :
              ret.scan[i].attributes = ret.scan[j].attributes
        /\ \A i \in 1..Len(ret.scan) : StatusOf(ret.scan[i].attributes) = "None"
        /\ \A n \in nodes : "status" \notin DOMAIN LoadAttributes(n.attributes)

\* a character linked to two segments by two update_graph calls, scanned
C17_Witness ==
    /\ ret.op = "find_continuity_violations"
    /\ tally.calls = 2
    /\ Len(ret.scan) = 2
    /\ ret.scan[1].segment_id # ret.scan[2].segment_id
    /\ ret.result = <<>>


====
